---- MODULE Spec2Model ----
\* Appointment scheduling engine of src/app.py: slot grid, availability,
\* and the Book / Reschedule / Cancel handlers run by concurrent browser
\* sessions against one shared sheet (ledger), one calendar and a mailer.
\*
\* Text values (Python str) are modelled as tuples; the empty string is <<>>.
\*   an ISO instant  "YYYY-MM-DDTHH:MM:SS-05:00" is <<day, h, m, s, "-05:00">>
\*   a minute stamp  "YYYY-MM-DDTHH:MM"          is <<day, h, m>>
\*   a display text  "YYYY-MM-DD HH:MM AM (-05)" is <<day, h12, m, "AM">>
\*   a date text     "YYYY-MM-DD"                is <<day>>
\*   an id (uuid / calendar event id)            is <<n>>
\*   free text is a tuple of one-character strings.
\* An instant (Python datetime in the configured zone) is the number of
\* seconds of local wall-clock time since Monday 2024-06-03 00:00 (day 0).
EXTENDS Integers, Sequences, FiniteSets, TLC

\* ---------------------------------------------------------------- bounds
MaxRows == 2
MaxEvents == 2
MaxTicks == 1

\* ------------------------------------------------------- program constants
SLOT_MINUTES == 15
MORNING_START_HOUR == 8
MORNING_END_HOUR == 12
AFTERNOON_START_HOUR == 14
AFTERNOON_END_HOUR == 18
DEFAULT_DURATION_MINUTES == 30
DEFAULT_DAYS == 120
SUNDAY == 6
MIN_BIRTHDATE == -41792
MIN_AGE_DAYS == 2555
SHEET_FIRST_DATA_ROW == 2

HEADERS ==
  << "id", "name", "email", "phone", "document", "birthdate",
     "start_time_iso", "local_display", "status", "calendar_event_id",
     "created_at_iso", "notes" >>

\* tz = ZoneInfo("America/Bogota"): a fixed UTC-05:00 offset, no DST.
TZ_OFFSET == "-05:00"

\* Python None where a datetime, a date or an index is expected.
None == -1
\* The empty string; also stands for an absent (None) id, both being falsy.
EMPTY == <<>>

\* ------------------------------------------------------------ date and time
DAY_SECONDS == 24 * 3600

DateOf(t) == t \div DAY_SECONDS
HourOf(t) == (t % DAY_SECONDS) \div 3600
MinuteOf(t) == (t % 3600) \div 60
SecondOf(t) == t % 60

\* datetime.combine(selected_date, time(hour, minute), tzinfo=tz)
combine_datetime(selected_date, hour, minute) ==
  selected_date * DAY_SECONDS + hour * 3600 + minute * 60

\* date.weekday(): Monday is 0, Sunday is 6 (day 0 is a Monday).
weekday(day) == day % 7

\* datetime.isoformat() of an aware datetime in tz.
isoformat(t) == << DateOf(t), HourOf(t), MinuteOf(t), SecondOf(t), TZ_OFFSET >>

\* dt.replace(second=0, microsecond=0)
replace_second0(t) == t - SecondOf(t)

\* date.isoformat()
date_isoformat(day) == << day >>

\* datetime.fromisoformat accepts the text: a full instant, a minute stamp
\* or a date alone, all fields in range.  A display text is not accepted.
IsIsoText(value) ==
  \/ /\ Len(value) = 5
     /\ value[2] \in 0..23
     /\ value[3] \in 0..59
     /\ value[4] \in 0..59
  \/ /\ Len(value) = 3
     /\ value[2] \in 0..23
     /\ value[3] \in 0..59
  \/ Len(value) = 1

\* A text without offset is read in tz; the offset of a full instant is tz's.
parse_iso_datetime(value) ==
  IF value = EMPTY THEN None
  ELSE IF IsIsoText(value)
       THEN IF Len(value) = 5
            THEN combine_datetime(value[1], value[2], value[3]) + value[4]
            ELSE IF Len(value) = 3
                 THEN combine_datetime(value[1], value[2], value[3])
                 ELSE combine_datetime(value[1], 0, 0)
       ELSE None

\* strftime("%Y-%m-%d %I:%M %p (%Z)")
format_local(t) ==
  << DateOf(t),
     IF HourOf(t) % 12 = 0 THEN 12 ELSE HourOf(t) % 12,
     MinuteOf(t),
     IF HourOf(t) < 12 THEN "AM" ELSE "PM" >>

\* --------------------------------------------------------------- holidays
\* holidays.country_holidays("CO") over the 2024 dates the horizon reaches:
\* Jun 3, Jun 10, Jul 1, Jul 20, Aug 7, Aug 19, Oct 14.
build_holiday_range_set(start, end) == {0, 7, 28, 47, 65, 77, 133}

\* ------------------------------------------------------------- validators
IsSpace(c) == c \in {" ", "\t", "\n"}

RECURSIVE lstrip(_)
lstrip(s) ==
  IF s # EMPTY /\ IsSpace(Head(s)) THEN lstrip(Tail(s)) ELSE s

RECURSIVE rstrip(_)
rstrip(s) ==
  IF s # EMPTY /\ IsSpace(s[Len(s)]) THEN rstrip(SubSeq(s, 1, Len(s) - 1)) ELSE s

strip(s) == rstrip(lstrip(s))

\* re.match(r"^[^@\s]+@[^@\s]+\.[^@\s]+$", value.strip())
is_valid_email(value) ==
  IF value = EMPTY THEN FALSE
  ELSE LET v == strip(value) IN
       \E i \in 1..Len(v), j \in 1..Len(v) :
          /\ v[i] = "@" /\ v[j] = "."
          /\ 1 < i /\ i + 1 < j /\ j < Len(v)
          /\ \A k \in 1..Len(v) : k # i => (v[k] # "@" /\ ~IsSpace(v[k]))

Digits == {"0", "1", "2", "3", "4", "5", "6", "7", "8", "9"}

\* re.fullmatch(r"3\d{9}", value.strip())
is_valid_phone_co(value) ==
  IF value = EMPTY THEN FALSE
  ELSE LET v == strip(value) IN
       /\ Len(v) = 10
       /\ v[1] = "3"
       /\ \A k \in 1..Len(v) : v[k] \in Digits

LowerChar(c) == CASE c = "A" -> "a" [] c = "B" -> "b" [] OTHER -> c

\* str.lower()
lower(s) == [k \in 1..Len(s) |-> LowerChar(s[k])]

\* ------------------------------------------------------------- time grid
RECURSIVE SegmentSlots(_, _)
SegmentSlots(current, segment_end) ==
  IF current < segment_end
  THEN <<current>> \o SegmentSlots(current + SLOT_MINUTES * 60, segment_end)
  ELSE <<>>

\* A grid whose segments run through their end instants.
generate_slots_through_end(selected_date) ==
  SegmentSlots(combine_datetime(selected_date, MORNING_START_HOUR, 0),
               combine_datetime(selected_date, MORNING_END_HOUR, 0) + 1)
  \o SegmentSlots(combine_datetime(selected_date, AFTERNOON_START_HOUR, 0),
                  combine_datetime(selected_date, AFTERNOON_END_HOUR, 0) + 1)

generate_slots_for_date(selected_date) ==
  SegmentSlots(combine_datetime(selected_date, MORNING_START_HOUR, 0),
               combine_datetime(selected_date, MORNING_END_HOUR, 0))
  \o SegmentSlots(combine_datetime(selected_date, AFTERNOON_START_HOUR, 0),
                  combine_datetime(selected_date, AFTERNOON_END_HOUR, 0))

\* An hours check that knows the two segments and no end boundary.
within_segments_of(hour, minute, second) ==
  \/ MORNING_START_HOUR <= hour /\ hour < MORNING_END_HOUR
  \/ AFTERNOON_START_HOUR <= hour /\ hour < AFTERNOON_END_HOUR

\* is_within_business_hours reads the hour, minute and second of the
\* datetime and nothing else of it.
within_business_hours_of(hour, minute, second) ==
  LET in_morning == MORNING_START_HOUR <= hour /\ hour < MORNING_END_HOUR
      in_afternoon == AFTERNOON_START_HOUR <= hour /\ hour < AFTERNOON_END_HOUR
      at_exact_end == hour = AFTERNOON_END_HOUR /\ minute = 0 /\ second = 0
  IN in_morning \/ in_afternoon \/ at_exact_end

is_within_business_hours(dt_value) ==
  within_business_hours_of(HourOf(dt_value), MinuteOf(dt_value),
                           SecondOf(dt_value))

\* ------------------------------------------------------ availability index
\* raw_iso[:10] parses as a date: every non-empty text of the start column
\* begins with a date field.
DatePrefix(raw_iso) ==
  IF Len(raw_iso) >= 1 THEN raw_iso[1] ELSE None

\* The stamp one active, non-ignored row adds to the conflict set of
\* selected_date, or EMPTY when it adds nothing.
ConflictStamp(item, selected_date) ==
  LET raw_iso == item.start_time_iso
      dt_val == parse_iso_datetime(raw_iso)
      item_date == IF dt_val # None THEN DateOf(dt_val) ELSE DatePrefix(raw_iso)
  IN IF item_date # None /\ item_date = selected_date
     THEN IF dt_val # None
          THEN isoformat(replace_second0(dt_val))
          ELSE << selected_date, raw_iso[2], raw_iso[3] >>
     ELSE EMPTY

\* A conflict set that also takes the rows that are not active.
build_conflict_set_any_status(existing, selected_date, ignore_id) ==
  { ConflictStamp(existing[k], selected_date) :
      k \in { n \in 1..Len(existing) :
                /\ ~(ignore_id # EMPTY /\ existing[n].id = ignore_id)
                /\ ConflictStamp(existing[n], selected_date) # EMPTY } }

build_conflict_set(existing, selected_date, ignore_id) ==
  { ConflictStamp(existing[k], selected_date) :
      k \in { n \in 1..Len(existing) :
                /\ existing[n].status = "active"
                /\ ~(ignore_id # EMPTY /\ existing[n].id = ignore_id)
                /\ ConflictStamp(existing[n], selected_date) # EMPTY } }

\* A day_is_full that wants more stamps than the day has slots.
day_is_full_strict(existing, selected_date, ignore_id) ==
  LET slots_in_day == Len(generate_slots_for_date(selected_date))
      conflicts == build_conflict_set(existing, selected_date, ignore_id)
  IN Cardinality(conflicts) > slots_in_day

day_is_full(existing, selected_date, ignore_id) ==
  LET slots_in_day == Len(generate_slots_for_date(selected_date))
      conflicts == build_conflict_set(existing, selected_date, ignore_id)
  IN Cardinality(conflicts) >= slots_in_day

\* A slot list built without leaving out the row of ignore_id.
slot_choices_without_ignore(existing, selected_date, ignore_id) ==
  LET slots == generate_slots_for_date(selected_date)
      conflicts == build_conflict_set(existing, selected_date, EMPTY)
  IN [k \in 1..Len(slots) |->
        [dt |-> slots[k],
         status |-> IF isoformat(replace_second0(slots[k])) \in conflicts
                    THEN "busy" ELSE "free"]]

slot_choices(existing, selected_date, ignore_id) ==
  LET slots == generate_slots_for_date(selected_date)
      conflicts == build_conflict_set(existing, selected_date, ignore_id)
  IN [k \in 1..Len(slots) |->
        [dt |-> slots[k],
         status |-> IF isoformat(replace_second0(slots[k])) \in conflicts
                    THEN "busy" ELSE "free"]]

\* A has_conflict that does not look at the status of a row.
has_conflict_any_status(existing, target_iso, ignore_id) ==
  \E k \in 1..Len(existing) :
     /\ ~(ignore_id # EMPTY /\ existing[k].id = ignore_id)
     /\ existing[k].start_time_iso = target_iso

\* A has_conflict that does not skip the row of ignore_id.
has_conflict_with_own_row(existing, target_iso, ignore_id) ==
  \E k \in 1..Len(existing) :
     /\ existing[k].status = "active"
     /\ existing[k].start_time_iso = target_iso

has_conflict(existing, target_iso, ignore_id) ==
  \E k \in 1..Len(existing) :
     /\ existing[k].status = "active"
     /\ ~(ignore_id # EMPTY /\ existing[k].id = ignore_id)
     /\ existing[k].start_time_iso = target_iso

\* Returns the 0-based index of the first row with the id, or None.
find_by_id(existing, appointment_id) ==
  IF \E k \in 1..Len(existing) : existing[k].id = appointment_id
  THEN (CHOOSE k \in 1..Len(existing) :
          /\ existing[k].id = appointment_id
          /\ \A n \in 1..(k - 1) : existing[n].id # appointment_id) - 1
  ELSE None

filter_by_email(existing, email) ==
  SelectSeq(existing, LAMBDA item : lower(item.email) = lower(email))

\* ------------------------------------------------- date availability planner
\* The descriptor date_choice_list builds for day start + i.
\* A descriptor whose reason names the full agenda before the holiday and the
\* Sunday.
day_choice_full_first(start, existing, ignore_id, holiday_set, i) ==
  LET day == start + i
      is_sunday == weekday(day) = SUNDAY
      is_holiday == day \in holiday_set
      is_full == day_is_full(existing, day, ignore_id)
  IN [date |-> day,
      blocked |-> is_sunday \/ is_holiday \/ is_full,
      reason |-> IF is_full THEN "agenda completa"
                 ELSE IF is_holiday THEN "festivo"
                 ELSE IF is_sunday THEN "domingo"
                 ELSE ""]

day_choice(start, existing, ignore_id, holiday_set, i) ==
  LET day == start + i
      is_sunday == weekday(day) = SUNDAY
      is_holiday == day \in holiday_set
      is_full == day_is_full(existing, day, ignore_id)
  IN [date |-> day,
      blocked |-> is_sunday \/ is_holiday \/ is_full,
      reason |-> IF is_sunday THEN "domingo"
                 ELSE IF is_holiday THEN "festivo"
                 ELSE IF is_full THEN "agenda completa"
                 ELSE ""]

\* The list of descriptors of [start, start + days].
date_choices(start, existing, days, ignore_id) ==
  [k \in 1..(days + 1) |->
     day_choice(start, existing, ignore_id,
                build_holiday_range_set(start, start + days), k - 1)]

\* A default index that keeps the last descriptor that is not blocked.
default_index_last_open(choices) ==
  LET open == { k \in 1..Len(choices) : ~choices[k].blocked }
  IN IF open = {} THEN 0
     ELSE (CHOOSE k \in open : \A n \in open : k >= n) - 1

\* The default index (0-based, as in the source): the first descriptor that
\* is not blocked, else the initial value 0.
default_index(choices) ==
  LET open == { k \in 1..Len(choices) : ~choices[k].blocked }
  IN IF open = {} THEN 0
     ELSE (CHOOSE k \in open : \A n \in open : k <= n) - 1

date_choice_list(start, existing, days, ignore_id) ==
  [choices |-> date_choices(start, existing, days, ignore_id),
   default_index |-> default_index(date_choices(start, existing, days, ignore_id))]

\* ------------------------------------------------------------- ledger port
HeaderIndex(h) == CHOOSE k \in 1..Len(HEADERS) : HEADERS[k] = h
HeaderSet == { HEADERS[k] : k \in 1..Len(HEADERS) }

\* The Sheets values.get response drops the trailing empty cells of a row.
RECURSIVE SheetsGetRow(_)
SheetsGetRow(values) ==
  IF values # <<>> /\ values[Len(values)] = EMPTY
  THEN SheetsGetRow(SubSeq(values, 1, Len(values) - 1))
  ELSE values

\* One fetched row as a dict keyed by HEADERS, missing cells read as "".
RowDict(row) ==
  [h \in HeaderSet |->
     IF HeaderIndex(h) <= Len(row) THEN row[HeaderIndex(h)] ELSE EMPTY]

\* Reads the data rows from sheet row 2 on.
fetch_appointments(sheet) ==
  [k \in 1..Len(sheet) |-> RowDict(SheetsGetRow(sheet[k]))]

append_appointment_at_top(sheet, values) == << values >> \o sheet

append_appointment(sheet, values) == Append(sheet, values)

\* Overwrites sheet row row_number (row 1 is the header row, the data rows
\* start at row 2); a write to the header row leaves the data rows alone.
update_row(sheet, row_number, values) ==
  LET k == row_number - SHEET_FIRST_DATA_ROW + 1
  IN IF k \in 1..Len(sheet) THEN [sheet EXCEPT ![k] = values]
     ELSE IF k = Len(sheet) + 1 THEN Append(sheet, values)
     ELSE sheet

\* ----------------------------------------------------------- calendar port
\* An event that lasts one slot of the grid instead of duration_minutes.
create_calendar_event_slot_length(cal, event_id, start_dt, duration_minutes) ==
  cal @@ (event_id :> [start |-> isoformat(start_dt),
                       end |-> isoformat(start_dt + SLOT_MINUTES * 60)])

create_calendar_event(cal, event_id, start_dt, duration_minutes) ==
  cal @@ (event_id :> [start |-> isoformat(start_dt),
                       end |-> isoformat(start_dt + duration_minutes * 60)])

\* A patch of the start that leaves the end of the event where it was.
update_calendar_event_start_only(cal, event_id, start_dt, duration_minutes) ==
  IF event_id \in DOMAIN cal
  THEN [cal EXCEPT ![event_id].start = isoformat(start_dt)]
  ELSE cal

\* events().patch of start and end; patching an event that no longer exists
\* changes nothing.
update_calendar_event(cal, event_id, start_dt, duration_minutes) ==
  IF event_id \in DOMAIN cal
  THEN [cal EXCEPT ![event_id] =
          [start |-> isoformat(start_dt),
           end |-> isoformat(start_dt + duration_minutes * 60)]]
  ELSE cal

\* A deletion that returns and leaves the event in the calendar.
delete_calendar_event_kept(cal, event_id) == cal

delete_calendar_event(cal, event_id) ==
  [e \in (DOMAIN cal) \ {event_id} |-> cal[e]]

\* ----------------------------------------------------------- notifier port
\* The outcome of send_email: "skipped" (a warning, nothing sent), "sent",
\* "shown" (the failure is caught and displayed) or "raised" (the exception
\* leaves send_email).  has_credentials: GMAIL_USER and GMAIL_APP_PASSWORD are
\* set; ssl_outcome: "ok", "eof" (ssl.SSLEOFError) or "error" (any other
\* exception) of the SMTP_SSL block; tls_outcome: "ok" or "error" of the
\* STARTTLS block run inside the SSLEOFError handler.
send_email(has_credentials, to_email, ssl_outcome, tls_outcome) ==
  IF ~has_credentials THEN "skipped"
  ELSE IF to_email = EMPTY THEN "skipped"
  ELSE IF ssl_outcome = "ok" THEN "sent"
  ELSE IF ssl_outcome = "eof"
       THEN (IF tls_outcome = "ok" THEN "sent" ELSE "raised")
       ELSE "shown"

\* ------------------------------------------------------------- handlers
\* The selected slot of the "Hora" select box: its instant when the chosen
\* entry is free, else None.
selected_slot(slots_info, k) ==
  IF k \in 1..Len(slots_info) /\ slots_info[k].status = "free"
  THEN slots_info[k].dt ELSE None

\* A handle_booking without the check of the start against now_local().
booking_precheck_without_past(existing, now_, form, date_idx, slot_idx) ==
  LET today == DateOf(now_)
      max_birthdate == today - MIN_AGE_DAYS
      choice == date_choices(today, existing, DEFAULT_DAYS, EMPTY)[date_idx + 1]
      slot == selected_slot(slot_choices(existing, choice.date, EMPTY), slot_idx)
  IN IF choice.blocked THEN "blocked_date"
     ELSE IF strip(form.name) = EMPTY THEN "name"
     ELSE IF strip(form.email) = EMPTY THEN "email"
     ELSE IF ~is_valid_email(form.email) THEN "email_invalid"
     ELSE IF strip(form.phone) = EMPTY THEN "phone"
     ELSE IF ~is_valid_phone_co(form.phone) THEN "phone_invalid"
     ELSE IF form.document = EMPTY THEN "document"
     ELSE IF form.birthdate = None THEN "birthdate"
     ELSE IF form.birthdate < MIN_BIRTHDATE THEN "birthdate_min"
     ELSE IF form.birthdate > max_birthdate THEN "birthdate_max"
     ELSE IF slot = None THEN "no_slot"
     ELSE IF ~is_within_business_hours(slot) THEN "hours"
     ELSE IF has_conflict(existing, isoformat(slot), EMPTY) THEN "conflict"
     ELSE "ok"

\* The checks of handle_booking before its try block: "ok", or the first
\* check that stops the request.  date_idx is the 0-based index chosen in the
\* date select box, slot_idx the 1-based entry chosen in the slot select box.
booking_precheck(existing, now_, form, date_idx, slot_idx) ==
  LET today == DateOf(now_)
      max_birthdate == today - MIN_AGE_DAYS
      choice == date_choices(today, existing, DEFAULT_DAYS, EMPTY)[date_idx + 1]
      slot == selected_slot(slot_choices(existing, choice.date, EMPTY), slot_idx)
  IN IF choice.blocked THEN "blocked_date"
     ELSE IF strip(form.name) = EMPTY THEN "name"
     ELSE IF strip(form.email) = EMPTY THEN "email"
     ELSE IF ~is_valid_email(form.email) THEN "email_invalid"
     ELSE IF strip(form.phone) = EMPTY THEN "phone"
     ELSE IF ~is_valid_phone_co(form.phone) THEN "phone_invalid"
     ELSE IF form.document = EMPTY THEN "document"
     ELSE IF form.birthdate = None THEN "birthdate"
     ELSE IF form.birthdate < MIN_BIRTHDATE THEN "birthdate_min"
     ELSE IF form.birthdate > max_birthdate THEN "birthdate_max"
     ELSE IF slot = None THEN "no_slot"
     ELSE IF slot < now_ THEN "past"
     ELSE IF ~is_within_business_hours(slot) THEN "hours"
     ELSE IF has_conflict(existing, isoformat(slot), EMPTY) THEN "conflict"
     ELSE "ok"

\* A handle_booking that commits the first entry of the slot box whatever
\* entry was checked.
booking_start_first_entry(existing, now_, date_idx, slot_idx) ==
  LET day == date_choices(DateOf(now_), existing, DEFAULT_DAYS,
                          EMPTY)[date_idx + 1].date
  IN slot_choices(existing, day, EMPTY)[1].dt

\* The instant handle_booking commits once booking_precheck is "ok".
booking_start(existing, now_, date_idx, slot_idx) ==
  LET day == date_choices(DateOf(now_), existing, DEFAULT_DAYS,
                          EMPTY)[date_idx + 1].date
  IN selected_slot(slot_choices(existing, day, EMPTY), slot_idx)

\* A handle_booking that writes start_time_iso and local_display into each
\* other's column.
booking_values_swapped(appointment_id, form, start_dt, event_id, created_at) ==
  << appointment_id, form.name, form.email, form.phone, form.document,
     IF form.birthdate # None THEN date_isoformat(form.birthdate) ELSE EMPTY,
     format_local(start_dt), isoformat(start_dt), "active", event_id,
     created_at, EMPTY >>

\* A handle_booking that appends its row without the id of the event.
booking_values_without_event(appointment_id, form, start_dt, event_id, created_at) ==
  << appointment_id, form.name, form.email, form.phone, form.document,
     IF form.birthdate # None THEN date_isoformat(form.birthdate) ELSE EMPTY,
     isoformat(start_dt), format_local(start_dt), "active", EMPTY,
     created_at, EMPTY >>

\* The row handle_booking appends.
booking_values(appointment_id, form, start_dt, event_id, created_at) ==
  << appointment_id, form.name, form.email, form.phone, form.document,
     IF form.birthdate # None THEN date_isoformat(form.birthdate) ELSE EMPTY,
     isoformat(start_dt), format_local(start_dt), "active", event_id,
     created_at, EMPTY >>

\* The active rows of the email typed in "Mis citas".
handle_lookup(existing, email) ==
  IF email = EMPTY THEN <<>>
  ELSE SelectSeq(filter_by_email(existing, email),
                 LAMBDA row : row.status = "active")

\* A handle_update without the check of the start against now_local().
update_precheck_without_past(existing, now_, selected_id, date_idx, slot_idx) ==
  LET choice == date_choices(DateOf(now_), existing, DEFAULT_DAYS,
                             selected_id)[date_idx + 1]
      slot == selected_slot(slot_choices(existing, choice.date, selected_id),
                            slot_idx)
  IN IF choice.blocked THEN "blocked_date"
     ELSE IF slot = None THEN "no_slot"
     ELSE IF ~is_within_business_hours(slot) THEN "hours"
     ELSE IF has_conflict(existing, isoformat(slot), selected_id) THEN "conflict"
     ELSE IF find_by_id(existing, selected_id) = None THEN "not_found"
     ELSE "ok"

\* The checks of handle_update before its try block.
update_precheck(existing, now_, selected_id, date_idx, slot_idx) ==
  LET choice == date_choices(DateOf(now_), existing, DEFAULT_DAYS,
                             selected_id)[date_idx + 1]
      slot == selected_slot(slot_choices(existing, choice.date, selected_id),
                            slot_idx)
  IN IF choice.blocked THEN "blocked_date"
     ELSE IF slot = None THEN "no_slot"
     ELSE IF slot < now_ THEN "past"
     ELSE IF ~is_within_business_hours(slot) THEN "hours"
     ELSE IF has_conflict(existing, isoformat(slot), selected_id) THEN "conflict"
     ELSE IF find_by_id(existing, selected_id) = None THEN "not_found"
     ELSE "ok"

update_start(existing, now_, selected_id, date_idx, slot_idx) ==
  LET day == date_choices(DateOf(now_), existing, DEFAULT_DAYS,
                          selected_id)[date_idx + 1].date
  IN selected_slot(slot_choices(existing, day, selected_id), slot_idx)

\* The row handle_update writes back.
updated_row(target, start_dt, notes) ==
  << target.id, target.name, target.email, target.phone, target.document,
     target.birthdate, isoformat(start_dt), format_local(start_dt), "active",
     target.calendar_event_id, target.created_at_iso,
     IF notes # EMPTY THEN notes ELSE target.notes >>

\* A handle_cancel that writes the row back with the status it had.
canceled_row_kept_active(target, reason) ==
  << target.id, target.name, target.email, target.phone, target.document,
     target.birthdate, target.start_time_iso, target.local_display, target.status,
     target.calendar_event_id, target.created_at_iso, reason >>

\* A handle_cancel that clears the reference to the deleted event.
canceled_row_without_event(target, reason) ==
  << target.id, target.name, target.email, target.phone, target.document,
     target.birthdate, target.start_time_iso, target.local_display, "canceled",
     EMPTY, target.created_at_iso, reason >>

\* The row handle_cancel writes back.
canceled_row(target, reason) ==
  << target.id, target.name, target.email, target.phone, target.document,
     target.birthdate, target.start_time_iso, target.local_display, "canceled",
     target.calendar_event_id, target.created_at_iso, reason >>

\* A row number that forgets the header row of the sheet.
target_row_number_without_header(idx) == idx + 1

\* The sheet row handle_update and handle_cancel write: idx + 2.
target_row_number(idx) == idx + 2

\* A handler that goes on to its next call whether the call returned or
\* raised.
after_call_regardless(returned, next_pc) == next_pc

\* What a handler does after a port call inside its try block: the next
\* call when the call returned, the except branch when it raised.
after_call(returned, next_pc) == IF returned THEN next_pc ELSE "done"

\* What the handler reports after send_email: st.success unless the
\* exception left send_email and reached the handler's except branch.
report_after_send(outcome) == IF outcome = "raised" THEN "error" ELSE "success"

\* ------------------------------------------------------------------ inputs
\* Two browser sessions, each running the script once per interaction.
Sessions == {"s1", "s2"}

GoodForm ==
  [name |-> <<"A", "n", "a">>,
   email |-> <<"a", "@", "b", ".", "c">>,
   phone |-> <<"3", "0", "0", "1", "2", "3", "4", "5", "6", "7">>,
   document |-> <<"1">>,
   birthdate |-> -10000]

\* One form per validation failure of handle_booking.
BadForms ==
  { [GoodForm EXCEPT !.name = <<" ">>],
    [GoodForm EXCEPT !.email = <<" ">>],
    [GoodForm EXCEPT !.email = <<"a", "@", "b">>],
    [GoodForm EXCEPT !.phone = EMPTY],
    [GoodForm EXCEPT !.phone = <<"3", "0", "0">>],
    [GoodForm EXCEPT !.document = EMPTY],
    [GoodForm EXCEPT !.birthdate = None],
    [GoodForm EXCEPT !.birthdate = MIN_BIRTHDATE - 1],
    [GoodForm EXCEPT !.birthdate = 0] }

Forms == {GoodForm} \cup BadForms

\* Emails typed in "Mis citas": none, the booked one in another case, an
\* unknown one.
LookupEmails ==
  { EMPTY, <<"A", "@", "b", ".", "c">>, <<"x", "@", "b", ".", "c">> }

\* Texts typed as notes or as cancellation reason.
NoteTexts == { EMPTY, <<"n">> }

\* Entries the user picks in the date box (0-based: Saturday, Sunday, the
\* holiday Monday) and in the slot box (08:00, 08:15).
DatePicks == {0, 1, 2}
SlotPicks == {1, 2}

\* Outcomes of the SMTP_SSL block and of the STARTTLS block of send_email.
SslOutcomes == {"ok", "eof", "error"}
TlsOutcomes == {"ok", "error"}

\* The clock starts on Saturday 2024-06-08 at 08:00:00.
StartNow == combine_datetime(5, 8, 0)

\* --------------------------------------------------------------- the state
VARIABLES
  now,       \* now_local(), in seconds
  ledger,    \* the data rows of the sheet, each a list of 12 cells
  calendar,  \* event id -> [start, end]
  pc,        \* per session: where its script run stands
  fresh,     \* per session: no other run wrote the sheet since main() fetched
  loc,       \* per session: the handler's local variables
  calls,     \* per session: the port calls of this run, in order
  result,    \* per session: what the run reported to the user
  args,      \* the function called on its own and its arguments
  ret        \* what that function returned, once it has

vars == << now, ledger, calendar, pc, fresh, loc, calls, result, args, ret >>

\* No function is being called on its own.
NoArgs == [fn |-> ""]
NoRet == [done |-> FALSE]

NoTarget == [h \in HeaderSet |-> EMPTY]

NoLoc ==
  [op |-> "", start_dt |-> None, form |-> GoodForm, target |-> NoTarget,
   idx |-> None, notes |-> EMPTY, appointment_id |-> EMPTY, event_id |-> EMPTY]

Init ==
  /\ now = StartNow
  /\ ledger = <<>>
  /\ calendar = <<>>
  /\ pc = [i \in Sessions |-> "idle"]
  /\ fresh = [i \in Sessions |-> TRUE]
  /\ loc = [i \in Sessions |-> NoLoc]
  /\ calls = [i \in Sessions |-> <<>>]
  /\ result = [i \in Sessions |-> ""]
  /\ args = NoArgs
  /\ ret = NoRet

Call(name, outcome) == [call |-> name, outcome |-> outcome]

PortOutcome(returned) == IF returned THEN "ok" ELSE "error"

\* uuid.uuid4(): an id no row and no running handler holds.
uuid4 ==
  LET used == { ledger[k][1] : k \in 1..Len(ledger) }
              \cup { loc[i].appointment_id : i \in Sessions }
  IN << CHOOSE n \in 1..(MaxRows + Cardinality(Sessions) + 1) :
          /\ <<n>> \notin used
          /\ \A m \in 1..(n - 1) : <<m>> \in used >>

\* The id events().insert gives a new event: one never given before.
NewEventId ==
  LET used == (DOMAIN calendar)
              \cup { ledger[k][10] : k \in 1..Len(ledger) }
              \cup { loc[i].event_id : i \in Sessions }
  IN << CHOOSE n \in 1..(MaxEvents + MaxRows + Cardinality(Sessions) + 1) :
          /\ <<n>> \notin used
          /\ \A m \in 1..(n - 1) : <<m>> \in used >>

\* main(): fetch_appointments, or the empty list when the fetch raised.
Fetched(fetch_ok) == IF fetch_ok THEN fetch_appointments(ledger) ELSE <<>>

PendingAppends == Cardinality({ i \in Sessions : pc[i] \in {"create", "append"} })
PendingCreates == Cardinality({ i \in Sessions : pc[i] = "create" })

\* The list of a running handler stops being current when another run's
\* write changes the sheet; the writer's own list was current or not when it
\* wrote.
StillFresh(i) ==
  [k \in Sessions |->
     fresh[k] /\ (k = i \/ pc[k] \in {"idle", "done"} \/ ledger' = ledger)]

\* The handler returns: its locals are gone, its report stays on the page.
Return(i, report) ==
  /\ loc' = [loc EXCEPT ![i] = [NoLoc EXCEPT !.op = loc[i].op]]
  /\ result' = [result EXCEPT ![i] = report]

\* The st.error messages of the prechecks.
Rejections ==
  { "blocked_date", "name", "email", "email_invalid", "phone", "phone_invalid",
    "document", "birthdate", "birthdate_min", "birthdate_max", "no_slot",
    "past", "hours", "conflict", "not_found" }

\* A precheck stops the request: st.error and return.
Reject(i, existing, opname, verdict) ==
  /\ pc' = [pc EXCEPT ![i] = "done"]
  /\ fresh' = [fresh EXCEPT ![i] = (existing = fetch_appointments(ledger))]
  /\ loc' = [loc EXCEPT ![i] = [NoLoc EXCEPT !.op = opname]]
  /\ result' = [result EXCEPT ![i] = verdict]
  /\ UNCHANGED << now, ledger, calendar, calls >>

\* ----------------------------------------------------------------- Book
\* main() fetches the sheet and handle_booking runs up to its try block.
BookSubmit(i, form, date_idx, slot_idx, fetch_ok) ==
  /\ pc[i] = "idle"
  /\ LET existing == Fetched(fetch_ok) IN
     IF booking_precheck(existing, now, form, date_idx, slot_idx) # "ok"
     THEN Reject(i, existing, "book",
                 booking_precheck(existing, now, form, date_idx, slot_idx))
     ELSE /\ Len(ledger) + PendingAppends < MaxRows
          /\ Cardinality(DOMAIN calendar) + PendingCreates < MaxEvents
          /\ pc' = [pc EXCEPT ![i] = "create"]
          /\ fresh' = [fresh EXCEPT ![i] = (existing = fetch_appointments(ledger))]
          /\ loc' = [loc EXCEPT ![i] =
                 [NoLoc EXCEPT !.op = "book", !.form = form,
                    !.start_dt = booking_start(existing, now, date_idx, slot_idx)]]
          /\ UNCHANGED << now, ledger, calendar, calls, result >>
  /\ UNCHANGED << args, ret >>

\* uuid4() and create_calendar_event.
BookCreateEvent(i, returned) ==
  /\ pc[i] = "create"
  /\ pc' = [pc EXCEPT ![i] = after_call(returned, "append")]
  /\ calls' = [calls EXCEPT ![i] =
        Append(@, Call("create_calendar_event", PortOutcome(returned)))]
  /\ IF returned
     THEN /\ calendar' = create_calendar_event(calendar, NewEventId,
                            loc[i].start_dt, DEFAULT_DURATION_MINUTES)
          /\ loc' = [loc EXCEPT ![i].appointment_id = uuid4,
                                ![i].event_id = NewEventId]
          /\ UNCHANGED result
     ELSE /\ UNCHANGED calendar
          /\ Return(i, "error")
  /\ UNCHANGED << now, ledger, fresh >>
  /\ UNCHANGED << args, ret >>

\* created_at = now_local() and append_appointment.
BookAppend(i, returned) ==
  /\ pc[i] = "append"
  /\ pc' = [pc EXCEPT ![i] = after_call(returned, "send")]
  /\ calls' = [calls EXCEPT ![i] =
        Append(@, Call("append_appointment", PortOutcome(returned)))]
  /\ IF returned
     THEN /\ ledger' = append_appointment(ledger,
                          booking_values(loc[i].appointment_id, loc[i].form,
                             loc[i].start_dt, loc[i].event_id, isoformat(now)))
          /\ UNCHANGED << loc, result >>
     ELSE /\ UNCHANGED ledger
          /\ Return(i, "error")
  /\ fresh' = StillFresh(i)
  /\ UNCHANGED << now, calendar >>
  /\ UNCHANGED << args, ret >>

\* ------------------------------------------------------------ Reschedule
\* main() fetches, handle_lookup lists the rows of the email, and
\* handle_update runs up to its try block for the chosen appointment.
UpdateSubmit(i, email, selected_id, date_idx, slot_idx, notes, fetch_ok) ==
  /\ pc[i] = "idle"
  /\ LET existing == Fetched(fetch_ok)
         user_rows == handle_lookup(existing, email)
     IN /\ \E k \in 1..Len(user_rows) : user_rows[k].id = selected_id
        /\ IF update_precheck(existing, now, selected_id, date_idx, slot_idx) # "ok"
           THEN Reject(i, existing, "update",
                       update_precheck(existing, now, selected_id, date_idx,
                                       slot_idx))
           ELSE LET idx == find_by_id(existing, selected_id)
                    target == existing[idx + 1]
                IN /\ pc' = [pc EXCEPT ![i] =
                          IF target.calendar_event_id # EMPTY
                          THEN "patch" ELSE "update_row"]
                   /\ fresh' = [fresh EXCEPT ![i] =
                                  (existing = fetch_appointments(ledger))]
                   /\ loc' = [loc EXCEPT ![i] =
                          [NoLoc EXCEPT !.op = "update", !.target = target,
                             !.idx = idx, !.notes = notes,
                             !.event_id = target.calendar_event_id,
                             !.start_dt = update_start(existing, now, selected_id,
                                                       date_idx, slot_idx)]]
                   /\ UNCHANGED << now, ledger, calendar, calls, result >>
  /\ UNCHANGED << args, ret >>

UpdatePatchEvent(i, returned) ==
  /\ pc[i] = "patch"
  /\ pc' = [pc EXCEPT ![i] = after_call(returned, "update_row")]
  /\ calls' = [calls EXCEPT ![i] =
        Append(@, Call("update_calendar_event", PortOutcome(returned)))]
  /\ IF returned
     THEN /\ calendar' = update_calendar_event(calendar, loc[i].event_id,
                            loc[i].start_dt, DEFAULT_DURATION_MINUTES)
          /\ UNCHANGED << loc, result >>
     ELSE /\ UNCHANGED calendar
          /\ Return(i, "error")
  /\ UNCHANGED << now, ledger, fresh >>
  /\ UNCHANGED << args, ret >>

UpdateRow(i, returned) ==
  /\ pc[i] = "update_row"
  /\ pc' = [pc EXCEPT ![i] = after_call(returned, "send")]
  /\ calls' = [calls EXCEPT ![i] =
        Append(@, Call("update_row", PortOutcome(returned)))]
  /\ IF returned
     THEN /\ ledger' = update_row(ledger, target_row_number(loc[i].idx),
                          updated_row(loc[i].target, loc[i].start_dt, loc[i].notes))
          /\ UNCHANGED << loc, result >>
     ELSE /\ UNCHANGED ledger
          /\ Return(i, "error")
  /\ fresh' = StillFresh(i)
  /\ UNCHANGED << now, calendar >>
  /\ UNCHANGED << args, ret >>

\* ---------------------------------------------------------------- Cancel
CancelSubmit(i, email, selected_id, reason, fetch_ok) ==
  /\ pc[i] = "idle"
  /\ LET existing == Fetched(fetch_ok)
         user_rows == handle_lookup(existing, email)
     IN /\ \E k \in 1..Len(user_rows) : user_rows[k].id = selected_id
        /\ IF find_by_id(existing, selected_id) = None
           THEN Reject(i, existing, "cancel", "not_found")
           ELSE LET idx == find_by_id(existing, selected_id)
                    target == existing[idx + 1]
                IN /\ pc' = [pc EXCEPT ![i] =
                          IF target.calendar_event_id # EMPTY
                          THEN "delete" ELSE "cancel_row"]
                   /\ fresh' = [fresh EXCEPT ![i] =
                                  (existing = fetch_appointments(ledger))]
                   /\ loc' = [loc EXCEPT ![i] =
                          [NoLoc EXCEPT !.op = "cancel", !.target = target,
                             !.idx = idx, !.notes = reason,
                             !.event_id = target.calendar_event_id]]
                   /\ UNCHANGED << now, ledger, calendar, calls, result >>
  /\ UNCHANGED << args, ret >>

CancelDeleteEvent(i, returned) ==
  /\ pc[i] = "delete"
  /\ pc' = [pc EXCEPT ![i] = after_call(returned, "cancel_row")]
  /\ calls' = [calls EXCEPT ![i] =
        Append(@, Call("delete_calendar_event", PortOutcome(returned)))]
  /\ IF returned
     THEN /\ calendar' = delete_calendar_event(calendar, loc[i].event_id)
          /\ UNCHANGED << loc, result >>
     ELSE /\ UNCHANGED calendar
          /\ Return(i, "error")
  /\ UNCHANGED << now, ledger, fresh >>
  /\ UNCHANGED << args, ret >>

CancelRow(i, returned) ==
  /\ pc[i] = "cancel_row"
  /\ pc' = [pc EXCEPT ![i] = after_call(returned, "send")]
  /\ calls' = [calls EXCEPT ![i] =
        Append(@, Call("update_row", PortOutcome(returned)))]
  /\ IF returned
     THEN /\ ledger' = update_row(ledger, target_row_number(loc[i].idx),
                          canceled_row(loc[i].target, loc[i].notes))
          /\ UNCHANGED << loc, result >>
     ELSE /\ UNCHANGED ledger
          /\ Return(i, "error")
  /\ fresh' = StillFresh(i)
  /\ UNCHANGED << now, calendar >>
  /\ UNCHANGED << args, ret >>

\* ----------------------------------------------------------- notification
\* send_email, then st.success, or the handler's except branch.
SendEmail(i, has_credentials, ssl_outcome, tls_outcome) ==
  /\ pc[i] = "send"
  /\ LET to_email == IF loc[i].op = "book" THEN loc[i].form.email
                     ELSE loc[i].target.email
         outcome == send_email(has_credentials, to_email, ssl_outcome, tls_outcome)
     IN /\ calls' = [calls EXCEPT ![i] = Append(@, Call("send_email", outcome))]
        /\ Return(i, report_after_send(outcome))
  /\ pc' = [pc EXCEPT ![i] = "done"]
  /\ UNCHANGED << now, ledger, calendar, fresh >>
  /\ UNCHANGED << args, ret >>

\* The user's next interaction starts a new script run.
Finish(i) ==
  /\ pc[i] = "done"
  /\ pc' = [pc EXCEPT ![i] = "idle"]
  /\ fresh' = [fresh EXCEPT ![i] = TRUE]
  /\ loc' = [loc EXCEPT ![i] = NoLoc]
  /\ calls' = [calls EXCEPT ![i] = <<>>]
  /\ result' = [result EXCEPT ![i] = ""]
  /\ UNCHANGED << now, ledger, calendar >>
  /\ UNCHANGED << args, ret >>

\* The wall clock advances by one second.
Tick ==
  /\ now < StartNow + MaxTicks
  /\ now' = now + 1
  /\ UNCHANGED << ledger, calendar, pc, fresh, loc, calls, result >>
  /\ UNCHANGED << args, ret >>

\* The steps of one session, its inputs drawn from the given sets.
SessionStep(i, forms, slots_in, notes_in, returns, creds, ssls, fetches) ==
  \/ \E form \in forms, d \in DatePicks, k \in slots_in, f \in fetches :
        BookSubmit(i, form, d, k, f)
  \/ \E r \in returns : BookCreateEvent(i, r)
  \/ \E r \in returns : BookAppend(i, r)
  \/ \E email \in LookupEmails, n \in 1..MaxRows, d \in DatePicks,
        k \in slots_in, notes \in notes_in, f \in fetches :
        UpdateSubmit(i, email, <<n>>, d, k, notes, f)
  \/ \E r \in returns : UpdatePatchEvent(i, r)
  \/ \E r \in returns : UpdateRow(i, r)
  \/ \E email \in LookupEmails, n \in 1..MaxRows, reason \in notes_in,
        f \in fetches :
        CancelSubmit(i, email, <<n>>, reason, f)
  \/ \E r \in returns : CancelDeleteEvent(i, r)
  \/ \E r \in returns : CancelRow(i, r)
  \/ \E c \in creds, s \in ssls, t \in TlsOutcomes : SendEmail(i, c, s, t)
  \/ Finish(i)

\* One session at a time: every run fetches after the previous run ended.
\* Every port call may fail; the clock runs.
Next ==
  \/ Tick
  \/ SessionStep("s1", Forms, SlotPicks, NoteTexts, BOOLEAN, BOOLEAN, SslOutcomes,
                 {TRUE})

Spec == Init /\ [][Next]_vars

\* Concurrent sessions: the runs of the two sessions interleave at their
\* port calls; the calendar and sheet calls may fail, and so may the fetch of
\* main().  Both users fill the form well, want the 08:00 slot and get
\* their mail.
NextConcurrent ==
  \E i \in Sessions :
     SessionStep(i, {GoodForm}, {1}, {EMPTY}, BOOLEAN, {TRUE}, {"ok"}, BOOLEAN)

SpecConcurrent == Init /\ [][NextConcurrent]_vars

\* One session at a time and no calendar or sheet call fails; the mail may
\* still fail, and the clock runs.
NextReliable ==
  \/ Tick
  \/ SessionStep("s1", Forms, SlotPicks, NoteTexts, {TRUE}, BOOLEAN, SslOutcomes,
                 {TRUE})

SpecReliable == Init /\ [][NextReliable]_vars

\* --------------------------------------------- the functions on their own
\* A fetched row with the given id, start text and status.
SnapshotRow(id, start_text, status) ==
  RowDict(<< id, GoodForm.name, GoodForm.email, GoodForm.phone,
             GoodForm.document, date_isoformat(GoodForm.birthdate),
             start_text, EMPTY, status, EMPTY, EMPTY, EMPTY >>)

\* n active rows on the first n slots of the day, with ids 1..n.
BookedDay(day, n) ==
  [k \in 1..n |->
     SnapshotRow(<<k>>, isoformat(generate_slots_for_date(day)[k]), "active")]

\* Dates given to generate_slots_for_date.
GridDays == 0..59

\* Datetimes given to is_within_business_hours, by their fields.
ClockTimes ==
  [hour : {7, 8, 11, 12, 13, 14, 17, 18, 19}, minute : {0, 15, 59},
   second : {0, 30}, microsecond : {0, 500000}]

\* Start texts of the rows given to has_conflict: 08:00:00, 08:00:30 and
\* 08:15:00 of Saturday 2024-06-08, the display text of 08:00, and none.
StartTexts ==
  { isoformat(combine_datetime(5, 8, 0)),
    isoformat(combine_datetime(5, 8, 0) + 30),
    isoformat(combine_datetime(5, 8, 15)),
    format_local(combine_datetime(5, 8, 0)),
    EMPTY }

SnapshotRows ==
  { SnapshotRow(id, start_text, status) :
      id \in {<<1>>, <<2>>}, start_text \in StartTexts,
      status \in {"active", "canceled"} }

\* Snapshots of at most two rows.
SmallSnapshots ==
  {<<>>} \cup { <<r>> : r \in SnapshotRows }
         \cup { <<r, q>> : r \in SnapshotRows, q \in SnapshotRows }

TargetTexts ==
  { isoformat(combine_datetime(5, 8, 0)), isoformat(combine_datetime(5, 8, 15)) }

IgnoreIds == { EMPTY, <<1>>, <<2>> }

\* Snapshots around a full Saturday 2024-06-08: no row, 31 and 32 slots
\* taken, 31 taken plus a second row on the first slot, plus a row 30 s into
\* the first slot, plus a canceled row on the last slot, plus a row whose start
\* is a display text; and a full Sunday and a full holiday.
LastSlotText == isoformat(generate_slots_for_date(5)[32])

DaySnapshots ==
  { <<>>, BookedDay(5, 31), BookedDay(5, 32),
    Append(BookedDay(5, 31),
           SnapshotRow(<<40>>, isoformat(combine_datetime(5, 8, 0)), "active")),
    Append(BookedDay(5, 31),
           SnapshotRow(<<40>>, isoformat(combine_datetime(5, 8, 0) + 30), "active")),
    Append(BookedDay(5, 31), SnapshotRow(<<40>>, LastSlotText, "canceled")),
    Append(BookedDay(5, 31),
           SnapshotRow(<<40>>, format_local(combine_datetime(5, 17, 45)), "active")),
    BookedDay(6, 32), BookedDay(7, 32), BookedDay(8, 32) }

DayIgnoreIds == { EMPTY, <<1>>, <<40>> }

\* Arguments of date_choice_list: a Friday, a Saturday, a Sunday and a
\* Wednesday as start, horizons of 0 to 3 days.
PlannerStarts == {4, 5, 6, 9}
PlannerDays == 0..3

\* Every call of a function on its own.
FunctionCalls ==
  [fn : {"generate_slots_for_date"}, selected_date : GridDays]
  \cup [fn : {"is_within_business_hours"}, dt_value : ClockTimes]
  \cup [fn : {"has_conflict"}, existing : SmallSnapshots,
        target_iso : TargetTexts, ignore_id : IgnoreIds]
  \cup [fn : {"day_is_full"}, existing : DaySnapshots,
        selected_date : {5, 6, 7}, ignore_id : DayIgnoreIds]
  \cup [fn : {"date_choice_list"}, start : PlannerStarts,
        existing : DaySnapshots, days : PlannerDays, ignore_id : {EMPTY, <<1>>}]

FunctionInit ==
  /\ now = StartNow
  /\ ledger = <<>>
  /\ calendar = <<>>
  /\ pc = [i \in Sessions |-> "idle"]
  /\ fresh = [i \in Sessions |-> TRUE]
  /\ loc = [i \in Sessions |-> NoLoc]
  /\ calls = [i \in Sessions |-> <<>>]
  /\ result = [i \in Sessions |-> ""]
  /\ args \in FunctionCalls
  /\ ret = NoRet

\* The call returns.
Returns(fn, value) ==
  /\ args.fn = fn
  /\ ~ret.done
  /\ ret' = [done |-> TRUE, value |-> value]
  /\ UNCHANGED << now, ledger, calendar, pc, fresh, loc, calls, result, args >>

CallGenerateSlots ==
  /\ args.fn = "generate_slots_for_date"
  /\ Returns("generate_slots_for_date",
             generate_slots_for_date(args.selected_date))

CallWithinBusinessHours ==
  /\ args.fn = "is_within_business_hours"
  /\ Returns("is_within_business_hours",
             within_business_hours_of(args.dt_value.hour, args.dt_value.minute,
                                      args.dt_value.second))

CallHasConflict ==
  /\ args.fn = "has_conflict"
  /\ Returns("has_conflict",
             has_conflict(args.existing, args.target_iso, args.ignore_id))

CallDayIsFull ==
  /\ args.fn = "day_is_full"
  /\ Returns("day_is_full",
             day_is_full(args.existing, args.selected_date, args.ignore_id))

CallDateChoiceList ==
  /\ args.fn = "date_choice_list"
  /\ Returns("date_choice_list",
             date_choice_list(args.start, args.existing, args.days,
                              args.ignore_id))

NextFunctions ==
  \/ CallGenerateSlots
  \/ CallWithinBusinessHours
  \/ CallHasConflict
  \/ CallDayIsFull
  \/ CallDateChoiceList

SpecFunctions == FunctionInit /\ [][NextFunctions]_vars

\* ================================================================ claims
\* The sheet as the handlers read it.
Rows == fetch_appointments(ledger)
RowsNext == fetch_appointments(ledger')

IsActive(row) == row.status = "active"

\* No two active rows of the sheet hold the same start_time_iso.
NoDoubleBooking(rows) ==
  \A k \in 1..Len(rows), n \in 1..Len(rows) :
     (k # n /\ IsActive(rows[k]) /\ IsActive(rows[n]))
        => rows[k].start_time_iso # rows[n].start_time_iso

\* Session i took a step.
Stepped(i) == pc'[i] # pc[i]

LastCall(log) == log[Len(log)]

\* The call log of session i holds a successful ledger write.
LedgerWritten(i) ==
  \E k \in 1..Len(calls[i]) :
     /\ calls[i][k].call \in {"append_appointment", "update_row"}
     /\ calls[i][k].outcome = "ok"

\* The position (1-based) of the row with the id in the sheet, 0 if none.
PositionOf(rows, id) ==
  IF \E k \in 1..Len(rows) : rows[k].id = id
  THEN CHOOSE k \in 1..Len(rows) : rows[k].id = id
  ELSE 0

\* ------------------------------------------------------------------ C1
\* C1: with one interaction at a time, each validated on a list fetched after
\* the previous one ended, no two active rows ever hold the same
\* start_time_iso, and a Book or Reschedule that passed its checks targets a
\* start no other active row holds.
C1_OneActivePerStart ==
  /\ NoDoubleBooking(Rows)
  /\ \A i \in Sessions :
        pc[i] \in {"create", "append", "patch", "update_row"} =>
           \A k \in 1..Len(Rows) :
              (IsActive(Rows[k]) /\ Rows[k].id # loc[i].target.id)
                 => Rows[k].start_time_iso # isoformat(loc[i].start_dt)

\* A Book was turned away because its slot is taken, beside two active rows.
C1_Witness ==
  /\ \E i \in Sessions : pc[i] = "done" /\ loc[i].op = "book"
                         /\ result[i] = "no_slot"
  /\ \E k \in 1..Len(Rows), n \in 1..Len(Rows) :
        k # n /\ IsActive(Rows[k]) /\ IsActive(Rows[n])

\* ------------------------------------------------------------------ C2
\* C2: nothing serializes commits.  A step that introduces two active rows
\* with the same start_time_iso is always the write of an interaction whose
\* fetched list is no longer the sheet: the write itself checks nothing.
C2_DoubleBookingFromStaleSnapshot ==
  [][ (NoDoubleBooking(Rows) /\ ~NoDoubleBooking(RowsNext))
        => \E i \in Sessions : Stepped(i) /\ ~fresh[i] ]_vars

\* Two sessions booked the same free start: two active rows and two calendar
\* events for that instant.
C2_Witness ==
  \E k \in 1..Len(Rows), n \in 1..Len(Rows) :
     /\ k # n
     /\ IsActive(Rows[k]) /\ IsActive(Rows[n])
     /\ Rows[k].start_time_iso = Rows[n].start_time_iso
     /\ Rows[k].calendar_event_id # Rows[n].calendar_event_id
     /\ Rows[k].calendar_event_id \in DOMAIN calendar
     /\ Rows[n].calendar_event_id \in DOMAIN calendar
     /\ calendar[Rows[k].calendar_event_id].start = Rows[k].start_time_iso
     /\ calendar[Rows[n].calendar_event_id].start = Rows[n].start_time_iso

\* ------------------------------------------------------------------ C3
\* C3: under any interleaving, a row that is canceled is never active in a
\* later state.
C3_CanceledNeverActive ==
  [][ \A k \in 1..Len(Rows) :
        Rows[k].status = "canceled" => RowsNext[k].status # "active" ]_vars

\* ------------------------------------------------------------------ C4
\* C4: once the ledger write succeeded, no failure of the notifier makes the
\* operation report a failure.
C4_NotificationNeverFailsOperation ==
  \A i \in Sessions :
     (pc[i] = "done" /\ LedgerWritten(i)) => result[i] = "success"

\* ------------------------------------------------------------------ C5
\* C5: Book calls create_calendar_event, then append_appointment, then
\* send_email, each only after the one before returned; the appended row is
\* active and carries the id of the event just created; when the creation
\* fails the run ends there with sheet and calendar as they were.
C5_BookOrder ==
  /\ [](\A i \in Sessions : loc[i].op = "book" =>
          /\ Len(calls[i]) <= 3
          /\ Len(calls[i]) >= 1 => calls[i][1].call = "create_calendar_event"
          /\ Len(calls[i]) >= 2 =>
                /\ calls[i][1].outcome = "ok"
                /\ calls[i][2].call = "append_appointment"
          /\ Len(calls[i]) >= 3 =>
                /\ calls[i][2].outcome = "ok"
                /\ calls[i][3].call = "send_email")
  /\ [][ \A i \in Sessions :
           /\ (loc[i].op = "book" /\ Len(ledger') > Len(ledger) /\ Stepped(i)) =>
                 /\ calls[i] = << Call("create_calendar_event", "ok") >>
                 /\ Len(ledger') = Len(ledger) + 1
                 /\ \A k \in 1..Len(ledger) : ledger'[k] = ledger[k]
                 /\ RowsNext[Len(ledger')].status = "active"
                 /\ RowsNext[Len(ledger')].calendar_event_id = loc[i].event_id
                 /\ loc[i].event_id \in DOMAIN calendar
                 /\ calendar[loc[i].event_id].start = isoformat(loc[i].start_dt)
                 /\ RowsNext[Len(ledger')].start_time_iso = isoformat(loc[i].start_dt)
           /\ (pc[i] = "create" /\ Stepped(i)
               /\ LastCall(calls'[i]).outcome = "error") =>
                 /\ pc'[i] = "done" /\ result'[i] = "error"
                 /\ ledger' = ledger /\ calendar' = calendar
                 /\ calls'[i] = << Call("create_calendar_event", "error") >> ]_vars

\* A Book went through its three calls.
C5_Witness ==
  \E i \in Sessions :
     /\ pc[i] = "done" /\ loc[i].op = "book" /\ Len(calls[i]) = 3
     /\ calls[i][3] = Call("send_email", "sent")

\* ------------------------------------------------------------------ C6
\* C6: when append_appointment fails after the event was created, the run
\* ends as a failure, the event stays in the calendar, no row refers to it,
\* and neither a delete of the event nor a notification follows.
C6_OrphanedEvent ==
  [][ \A i \in Sessions :
        (pc[i] = "append" /\ Stepped(i)
         /\ LastCall(calls'[i]).outcome = "error") =>
           /\ pc'[i] = "done" /\ result'[i] = "error"
           /\ calls'[i] = << Call("create_calendar_event", "ok"),
                             Call("append_appointment", "error") >>
           /\ ledger' = ledger /\ calendar' = calendar
           /\ loc[i].event_id \in DOMAIN calendar'
           /\ \A k \in 1..Len(RowsNext) :
                 RowsNext[k].calendar_event_id # loc[i].event_id ]_vars

\* A Book ended on the failed append, leaving an event no row refers to.
C6_Witness ==
  /\ \E i \in Sessions :
        /\ pc[i] = "done" /\ result[i] = "error"
        /\ calls[i] = << Call("create_calendar_event", "ok"),
                         Call("append_appointment", "error") >>
  /\ \E e \in DOMAIN calendar :
        \A k \in 1..Len(Rows) : Rows[k].calendar_event_id # e

\* ------------------------------------------------------------------ C7
\* C7: in a Reschedule of an appointment that has an event, a failed
\* update_calendar_event ends the run with the sheet as it was and no
\* send_email; a failed update_row after a successful update_calendar_event
\* ends the run as a failure with the event at the new window and the row
\* at its old start.
C7_RescheduleFailures ==
  [][ \A i \in Sessions :
        /\ (pc[i] = "patch" /\ Stepped(i)
            /\ LastCall(calls'[i]).outcome = "error") =>
              /\ pc'[i] = "done" /\ result'[i] = "error"
              /\ calls'[i] = << Call("update_calendar_event", "error") >>
              /\ ledger' = ledger /\ calendar' = calendar
        /\ (pc[i] = "update_row" /\ Stepped(i)
            /\ calls[i] = << Call("update_calendar_event", "ok") >>
            /\ LastCall(calls'[i]).outcome = "error") =>
              /\ pc'[i] = "done" /\ result'[i] = "error"
              /\ calls'[i] = << Call("update_calendar_event", "ok"),
                                Call("update_row", "error") >>
              /\ ledger' = ledger /\ calendar' = calendar
              /\ RowsNext[loc[i].idx + 1].id = loc[i].target.id
              /\ RowsNext[loc[i].idx + 1].start_time_iso
                    = loc[i].target.start_time_iso
              /\ loc[i].event_id \in DOMAIN calendar' =>
                    /\ calendar'[loc[i].event_id].start = isoformat(loc[i].start_dt)
                    /\ calendar'[loc[i].event_id].end =
                          isoformat(loc[i].start_dt + DEFAULT_DURATION_MINUTES * 60)
      ]_vars

\* A Reschedule ended on the failed update_row: the event of an active row
\* starts at another instant than the row.
C7_Witness ==
  /\ \E i \in Sessions :
        /\ pc[i] = "done" /\ result[i] = "error"
        /\ calls[i] = << Call("update_calendar_event", "ok"),
                         Call("update_row", "error") >>
  /\ \E k \in 1..Len(Rows) :
        /\ IsActive(Rows[k])
        /\ Rows[k].calendar_event_id \in DOMAIN calendar
        /\ calendar[Rows[k].calendar_event_id].start # Rows[k].start_time_iso

\* ------------------------------------------------------------------ C8
\* The contact fields of a Book form are all present and well formed.
WellFormed(form) ==
  /\ strip(form.name) # EMPTY
  /\ strip(form.email) # EMPTY /\ is_valid_email(form.email)
  /\ strip(form.phone) # EMPTY /\ is_valid_phone_co(form.phone)
  /\ form.document # EMPTY

\* C8: a Book or Reschedule goes on to its port calls only with every
\* precondition met (contact fields well formed for Book, a slot selected,
\* start not before the current time, start in business hours, no other
\* active row at the start); every other request ends at once with an error
\* message, no port call, and sheet and calendar as they were.
C8_RejectedWithoutEffects ==
  [][ \A i \in Sessions :
        (pc[i] = "idle" /\ Stepped(i)) =>
           /\ calls'[i] = <<>>
           /\ ledger' = ledger /\ calendar' = calendar
           /\ \/ pc'[i] = "done" /\ result'[i] \in Rejections
              \/ /\ pc'[i] \in {"create", "patch", "update_row"}
                 /\ loc'[i].op = "book" => WellFormed(loc'[i].form)
                 /\ loc'[i].start_dt # None
                 /\ loc'[i].start_dt >= now
                 /\ is_within_business_hours(loc'[i].start_dt)
                 /\ ~has_conflict(Rows, isoformat(loc'[i].start_dt),
                                  loc'[i].target.id)
              \/ /\ pc'[i] \in {"delete", "cancel_row"}
                 /\ loc'[i].op = "cancel" ]_vars

\* A Book for a start already past was turned away beside an active row.
C8_Witness ==
  /\ \E i \in Sessions :
        /\ pc[i] = "done" /\ loc[i].op = "book" /\ result[i] = "past"
        /\ calls[i] = <<>>
  /\ \E k \in 1..Len(Rows) : IsActive(Rows[k])

\* ------------------------------------------------------------------ C9
\* The columns Reschedule and Cancel both write back as they were.
KeptColumns ==
  { "id", "name", "email", "phone", "document", "birthdate",
    "calendar_event_id", "created_at_iso" }

\* C9: the update_row of a Reschedule overwrites the row of the target where
\* it stands: the kept columns are as before, start_time_iso and
\* local_display are those of the new start, status is active, notes is the
\* supplied text when there is one and the prior notes otherwise; no other
\* row changes.
C9_RescheduleFrame ==
  [][ \A i \in Sessions :
        (pc[i] = "update_row" /\ pc'[i] = "send") =>
           LET p == PositionOf(Rows, loc[i].target.id) IN
           /\ p > 0
           /\ Len(ledger') = Len(ledger)
           /\ \A k \in 1..Len(ledger) : k # p => ledger'[k] = ledger[k]
           /\ \A h \in KeptColumns : RowsNext[p][h] = Rows[p][h]
           /\ RowsNext[p].start_time_iso = isoformat(loc[i].start_dt)
           /\ RowsNext[p].local_display = format_local(loc[i].start_dt)
           /\ RowsNext[p].status = "active"
           /\ RowsNext[p].notes =
                 IF loc[i].notes # EMPTY THEN loc[i].notes ELSE Rows[p].notes
      ]_vars

\* A Reschedule without notes wrote a row that kept its prior notes, beside
\* another row.
C9_Witness ==
  \E i \in Sessions :
     /\ pc[i] = "send" /\ loc[i].op = "update" /\ loc[i].notes = EMPTY
     /\ Len(Rows) = 2
     /\ \E k \in 1..Len(Rows) :
           /\ Rows[k].id = loc[i].target.id
           /\ Rows[k].notes # EMPTY
           /\ Rows[k].start_time_iso # loc[i].target.start_time_iso

\* ----------------------------------------------------------------- C10
\* C10: the update_row of a Cancel changes only status, to canceled, and
\* notes, to the reason; the row keeps every other column, the
\* calendar_event_id of the deleted event included; no other row changes.
C10_CancelFrame ==
  [][ \A i \in Sessions :
        (pc[i] = "cancel_row" /\ pc'[i] = "send") =>
           LET p == PositionOf(Rows, loc[i].target.id) IN
           /\ p > 0
           /\ Len(ledger') = Len(ledger)
           /\ \A k \in 1..Len(ledger) : k # p => ledger'[k] = ledger[k]
           /\ \A h \in KeptColumns \cup {"start_time_iso", "local_display"} :
                 RowsNext[p][h] = Rows[p][h]
           /\ RowsNext[p].status = "canceled"
           /\ RowsNext[p].notes = loc[i].notes
           /\ RowsNext[p].calendar_event_id # EMPTY =>
                 RowsNext[p].calendar_event_id \notin DOMAIN calendar'
      ]_vars

\* A Cancel wrote its row beside another row: the row is canceled and still
\* names an event the calendar no longer has.
C10_Witness ==
  \E i \in Sessions :
     /\ pc[i] = "send" /\ loc[i].op = "cancel"
     /\ Len(Rows) = 2
     /\ \E k \in 1..Len(Rows) :
           /\ Rows[k].id = loc[i].target.id
           /\ Rows[k].status = "canceled"
           /\ Rows[k].calendar_event_id # EMPTY
           /\ Rows[k].calendar_event_id \notin DOMAIN calendar

\* ----------------------------------------------------------------- C11
\* C11: a Cancel of a listed appointment is never turned away for its time,
\* its hours or a conflict; it calls delete_calendar_event when the row has
\* an event id, then update_row with status canceled, then send_email, each
\* only after the one before returned; when the deletion fails the run ends
\* there, the row still active and no further call made.
C11_CancelOrder ==
  /\ [](\A i \in Sessions : loc[i].op = "cancel" =>
          /\ Len(calls[i]) <= 3
          /\ Len(calls[i]) >= 1 =>
                calls[i][1].call \in {"delete_calendar_event", "update_row"}
          /\ \A k \in 2..Len(calls[i]) :
                /\ calls[i][k - 1].outcome = "ok"
                /\ calls[i][k - 1].call = "delete_calendar_event"
                      => calls[i][k].call = "update_row"
                /\ calls[i][k - 1].call = "update_row"
                      => calls[i][k].call = "send_email"
                /\ calls[i][k - 1].call # "send_email")
  /\ [][ \A i \in Sessions :
           /\ (pc[i] = "idle" /\ Stepped(i) /\ loc'[i].op = "cancel") =>
                 /\ calls'[i] = <<>>
                 /\ IF loc'[i].target.calendar_event_id # EMPTY
                    THEN pc'[i] = "delete" ELSE pc'[i] = "cancel_row"
           /\ (pc[i] = "delete" /\ Stepped(i)
               /\ LastCall(calls'[i]).outcome = "error") =>
                 /\ pc'[i] = "done" /\ result'[i] = "error"
                 /\ calls'[i] = << Call("delete_calendar_event", "error") >>
                 /\ ledger' = ledger /\ calendar' = calendar
                 /\ RowsNext[PositionOf(RowsNext, loc[i].target.id)].status
                       = "active"
           /\ (pc[i] = "cancel_row" /\ pc'[i] = "send") =>
                 /\ loc[i].event_id # EMPTY =>
                       /\ calls[i] = << Call("delete_calendar_event", "ok") >>
                       /\ loc[i].event_id \notin DOMAIN calendar
                 /\ RowsNext[PositionOf(RowsNext, loc[i].target.id)].status
                       = "canceled" ]_vars

\* A Cancel of an appointment whose start is already past went through its
\* three calls.
C11_Witness ==
  \E i \in Sessions :
     /\ pc[i] = "done" /\ loc[i].op = "cancel" /\ result[i] = "success"
     /\ Len(calls[i]) = 3
     /\ \E k \in 1..Len(Rows) :
           /\ Rows[k].status = "canceled"
           /\ parse_iso_datetime(Rows[k].start_time_iso) < now

\* ----------------------------------------------------------------- C12
\* C12: a Reschedule of an active appointment to the start it already holds,
\* that start not being past, passes the checks of handle_update (its own
\* row is no conflict) and its update_row leaves the row active at the same
\* start.
C12_RescheduleToOwnStart ==
  /\ [](\A k \in 1..Len(Rows), d \in DatePicks, n \in SlotPicks :
          LET day == DateOf(now) + d
              slot == generate_slots_for_date(day)[n]
          IN (/\ IsActive(Rows[k])
              /\ Rows[k].start_time_iso = isoformat(slot)
              /\ slot >= now) =>
                /\ update_precheck(Rows, now, Rows[k].id, d, n) = "ok"
                /\ update_start(Rows, now, Rows[k].id, d, n) = slot)
  /\ [][ \A i \in Sessions :
           (/\ pc[i] = "update_row" /\ pc'[i] = "send"
            /\ isoformat(loc[i].start_dt) = loc[i].target.start_time_iso) =>
              LET p == PositionOf(Rows, loc[i].target.id) IN
              /\ RowsNext[p].status = "active"
              /\ RowsNext[p].start_time_iso = Rows[p].start_time_iso ]_vars

\* A Reschedule to the start the appointment already held wrote its row.
C12_Witness ==
  \E i \in Sessions :
     /\ pc[i] = "send" /\ loc[i].op = "update"
     /\ LastCall(calls[i]) = Call("update_row", "ok")
     /\ isoformat(loc[i].start_dt) = loc[i].target.start_time_iso
     /\ \E k \in 1..Len(Rows) :
           /\ Rows[k].id = loc[i].target.id
           /\ IsActive(Rows[k])
           /\ Rows[k].start_time_iso = loc[i].target.start_time_iso

\* ----------------------------------------------------------------- C13
\* date_choice_list has returned.
Planned == args.fn = "date_choice_list" /\ ret.done

\* The 0-based indexes of the descriptors returned as not blocked.
OpenIndexes ==
  { k \in 0..args.days : ~ret.value.choices[k + 1].blocked }

\* C13 as stated: the default index is the index of the first day that is not
\* blocked, and the last index of the range when every day is blocked.
C13_DefaultIndexElseLast ==
  Planned =>
     IF OpenIndexes # {}
     THEN /\ ret.value.default_index \in OpenIndexes
          /\ \A k \in OpenIndexes : ret.value.default_index <= k
     ELSE ret.value.default_index = args.days

\* C13 as amended: the default index is the index of the first day that is
\* not blocked, and 0 when every day is blocked.
C13_DefaultIndexElseZero ==
  Planned =>
     IF OpenIndexes # {}
     THEN /\ ret.value.default_index \in OpenIndexes
          /\ \A k \in OpenIndexes : ret.value.default_index <= k
     ELSE ret.value.default_index = 0

\* A range of more than one day, every day of it blocked: the default index
\* is 0.
C13_Witness ==
  /\ Planned
  /\ args.days > 0
  /\ OpenIndexes = {}
  /\ ret.value.default_index = 0

\* ----------------------------------------------------------------- C14
\* C14: date_choice_list returns days + 1 descriptors in date order from
\* start; a day is blocked iff it is a Sunday, a holiday or full; its reason
\* is "domingo" on a Sunday, else "festivo" on a holiday, else
\* "agenda completa" when full, else empty.
C14_BlockedAndReason ==
  Planned =>
     /\ Len(ret.value.choices) = args.days + 1
     /\ \A k \in 0..args.days :
           LET choice == ret.value.choices[k + 1]
               day == args.start + k
               is_sunday == day % 7 = 6
               is_holiday == day \in build_holiday_range_set(args.start,
                                        args.start + args.days)
               is_full == day_is_full(args.existing, day, args.ignore_id)
           IN /\ choice.date = day
              /\ choice.blocked <=> (is_sunday \/ is_holiday \/ is_full)
              /\ is_sunday => choice.reason = "domingo"
              /\ (~is_sunday /\ is_holiday) => choice.reason = "festivo"
              /\ (~is_sunday /\ ~is_holiday /\ is_full)
                    => choice.reason = "agenda completa"
              /\ (~is_sunday /\ ~is_holiday /\ ~is_full) => choice.reason = ""

\* A Sunday with all its slots taken is blocked as a Sunday, a holiday with
\* all its slots taken as a holiday, and a full Saturday as full.
C14_Witness ==
  /\ Planned
  /\ \E k \in 0..args.days :
        /\ (args.start + k) % 7 = 6
        /\ day_is_full(args.existing, args.start + k, args.ignore_id)
        /\ ret.value.choices[k + 1].blocked
        /\ ret.value.choices[k + 1].reason = "domingo"
  /\ \E k \in 0..args.days : ret.value.choices[k + 1].reason = "festivo"
  /\ \E k \in 0..args.days : ~ret.value.choices[k + 1].blocked

\* ----------------------------------------------------------------- C15
\* C15: has_conflict is true iff some row of the snapshot is active, is not
\* the row of a given ignore_id, and has a start_time_iso equal to the
\* target text; canceled rows and the ignored row never make it true.
C15_HasConflictExact ==
  (args.fn = "has_conflict" /\ ret.done) =>
     LET counted == { k \in 1..Len(args.existing) :
                        /\ args.existing[k].status = "active"
                        /\ args.ignore_id = EMPTY
                              \/ args.existing[k].id # args.ignore_id }
     IN /\ ret.value <=>
              (\E k \in counted : args.existing[k].start_time_iso = args.target_iso)
        /\ (\A k \in 1..Len(args.existing) :
               \/ args.existing[k].status = "canceled"
               \/ args.ignore_id # EMPTY /\ args.existing[k].id = args.ignore_id
               \/ args.existing[k].start_time_iso # args.target_iso)
              => ~ret.value

\* The target is held by a canceled row and by the ignored active row: no
\* conflict.
C15_Witness ==
  /\ args.fn = "has_conflict" /\ ret.done
  /\ ~ret.value
  /\ args.ignore_id # EMPTY
  /\ Len(args.existing) = 2
  /\ \E k \in 1..2, n \in 1..2 :
        /\ k # n
        /\ args.existing[k].status = "canceled"
        /\ args.existing[k].id # args.ignore_id
        /\ args.existing[k].start_time_iso = args.target_iso
        /\ args.existing[n].status = "active"
        /\ args.existing[n].id = args.ignore_id
        /\ args.existing[n].start_time_iso = args.target_iso

\* ----------------------------------------------------------------- C16
\* The rows of the snapshot that count for the day: active, not the ignored
\* one, with a start text on that date.
CountedRows(existing, selected_date, ignore_id) ==
  { k \in 1..Len(existing) :
      /\ existing[k].status = "active"
      /\ ignore_id = EMPTY \/ existing[k].id # ignore_id
      /\ existing[k].start_time_iso # EMPTY
      /\ existing[k].start_time_iso[1] = selected_date }

\* The hour and minute of the start text of a row, and whether the text is a
\* readable instant.
MinuteOfRow(row) ==
  << Len(row.start_time_iso) \in {3, 5}, row.start_time_iso[2],
     row.start_time_iso[3] >>

\* C16: day_is_full is true iff the distinct minute-truncated starts that
\* build_conflict_set holds for the date are at least as many as the slots
\* generate_slots_for_date yields for it.
C16_DayIsFull ==
  (args.fn = "day_is_full" /\ ret.done) =>
     LET counted == CountedRows(args.existing, args.selected_date, args.ignore_id)
         minutes == { MinuteOfRow(args.existing[k]) : k \in counted }
         conflicts == build_conflict_set(args.existing, args.selected_date,
                                         args.ignore_id)
         slots == generate_slots_for_date(args.selected_date)
     IN /\ Cardinality(conflicts) = Cardinality(minutes)
        /\ ret.value <=> Cardinality(minutes) >= Len(slots)
        /\ ret.value <=> Cardinality(conflicts) >= Len(slots)

\* Exactly as many distinct starts as slots: the day is full.
C16_Witness ==
  /\ args.fn = "day_is_full" /\ ret.done
  /\ ret.value
  /\ Cardinality(build_conflict_set(args.existing, args.selected_date,
                                    args.ignore_id))
        = Len(generate_slots_for_date(args.selected_date))
  /\ Len(args.existing) = Len(generate_slots_for_date(args.selected_date))

\* ----------------------------------------------------------------- C17
\* C17: generate_slots_for_date returns 08:00, 08:15, ... 11:45 followed by
\* 14:00, 14:15, ... 17:45 of the date: 32 instants, strictly increasing,
\* each a multiple of 15 minutes from the start of its segment and before
\* its end, 12:00 and 18:00 not among them; a second call returns the same.
C17_SlotGrid ==
  (args.fn = "generate_slots_for_date" /\ ret.done) =>
     LET slots == ret.value
         midnight == args.selected_date * 24 * 3600
         at(h, m) == midnight + h * 3600 + m * 60
     IN /\ Len(slots) = 32
        /\ \A k \in 1..16 : slots[k] = at(8, 0) + (k - 1) * 15 * 60
        /\ \A k \in 17..32 : slots[k] = at(14, 0) + (k - 17) * 15 * 60
        /\ \A k \in 1..(Len(slots) - 1) : slots[k] < slots[k + 1]
        /\ \A k \in 1..Len(slots) :
              \/ /\ at(8, 0) <= slots[k] /\ slots[k] < at(12, 0)
                 /\ (slots[k] - at(8, 0)) % (15 * 60) = 0
              \/ /\ at(14, 0) <= slots[k] /\ slots[k] < at(18, 0)
                 /\ (slots[k] - at(14, 0)) % (15 * 60) = 0
        /\ \A k \in 1..Len(slots) : slots[k] \notin {at(12, 0), at(18, 0)}
        /\ generate_slots_for_date(args.selected_date) = slots

\* The grid of a Sunday: the morning ends with 11:45 and the afternoon starts
\* with 14:00.
C17_Witness ==
  /\ args.fn = "generate_slots_for_date" /\ ret.done
  /\ args.selected_date = 6
  /\ isoformat(ret.value[16]) = << 6, 11, 45, 0, TZ_OFFSET >>
  /\ isoformat(ret.value[17]) = << 6, 14, 0, 0, TZ_OFFSET >>
  /\ isoformat(ret.value[Len(ret.value)]) = << 6, 17, 45, 0, TZ_OFFSET >>

\* ----------------------------------------------------------------- C18
\* is_within_business_hours has returned.
HoursChecked == args.fn = "is_within_business_hours" /\ ret.done

\* The time of day of the datetime given to it: whole seconds, to which its
\* microsecond adds less than a second.
SecondOfDay ==
  (args.dt_value.hour * 60 + args.dt_value.minute) * 60 + args.dt_value.second

InSegments ==
  \/ 8 * 3600 <= SecondOfDay /\ SecondOfDay < 12 * 3600
  \/ 14 * 3600 <= SecondOfDay /\ SecondOfDay < 18 * 3600

\* Every generated slot is accepted; 12:00 to 13:59:59 is not; 18:00:00 is.
GridAndBoundary ==
  /\ \A day \in {5, 6} :
        /\ \A k \in 1..Len(generate_slots_for_date(day)) :
              is_within_business_hours(generate_slots_for_date(day)[k])
        /\ ~is_within_business_hours(combine_datetime(day, 12, 0))
        /\ ~is_within_business_hours(combine_datetime(day, 13, 59) + 59)
        /\ is_within_business_hours(combine_datetime(day, 18, 0))
        /\ \A k \in 1..Len(generate_slots_for_date(day)) :
              generate_slots_for_date(day)[k] # combine_datetime(day, 18, 0)

\* C18 as stated: an instant is accepted iff it lies in [08:00,12:00) or
\* [14:00,18:00) of its day or is exactly 18:00:00.
C18_AcceptedIffSegmentsOrExactEnd ==
  HoursChecked =>
     /\ ret.value <=>
           \/ InSegments
           \/ SecondOfDay = 18 * 3600 /\ args.dt_value.microsecond = 0
     /\ GridAndBoundary

\* C18 as amended: an instant is accepted iff it lies in [08:00,12:00) or
\* [14:00,18:00) of its day or in the second that starts at 18:00:00 (hour
\* 18, minute 0, second 0, whatever its microsecond).
C18_AcceptedIffSegmentsOrEndSecond ==
  HoursChecked =>
     /\ ret.value <=>
           \/ InSegments
           \/ SecondOfDay = 18 * 3600
     /\ GridAndBoundary

\* Half a second after 18:00:00 is accepted.
C18_Witness ==
  /\ HoursChecked
  /\ args.dt_value = [hour |-> 18, minute |-> 0, second |-> 0,
                      microsecond |-> 500000]
  /\ ret.value

\* ----------------------------------------------------------------- C19
\* The start of every row of the sheet is a slot of its own date.
SlotAligned ==
  \A k \in 1..Len(Rows) :
     LET start == parse_iso_datetime(Rows[k].start_time_iso)
     IN /\ start # None
        /\ \E n \in 1..Len(generate_slots_for_date(DateOf(start))) :
              generate_slots_for_date(DateOf(start))[n] = start
        /\ Rows[k].start_time_iso = isoformat(start)

\* Session i writes the start of its Book or Reschedule into the sheet.
WritesStart(i) ==
  /\ pc[i] \in {"append", "update_row"}
  /\ pc'[i] = "send"

\* C19 as stated: the start of every row is slot-aligned, and when Book or
\* Reschedule writes it, it is not earlier than the current local time.
C19_AlignedAndNotPastWhenWritten ==
  /\ [] SlotAligned
  /\ [][ \A i \in Sessions : WritesStart(i) => loc[i].start_dt >= now ]_vars

\* C19 as amended: the start of every row is slot-aligned, and when Book or
\* Reschedule checked it, before their port calls, it was not earlier than
\* the local time of that moment; the row written later carries that start.
C19_AlignedAndNotPastWhenChecked ==
  /\ [] SlotAligned
  /\ [][ \A i \in Sessions :
           /\ (pc[i] = "idle" /\ pc'[i] \in {"create", "patch", "update_row"})
                 => loc'[i].start_dt >= now
           /\ (pc[i] \in {"create", "append", "patch", "update_row"}
               /\ pc'[i] \notin {"idle", "done"})
                 => loc'[i].start_dt = loc[i].start_dt
           /\ WritesStart(i) =>
                 \E k \in 1..Len(RowsNext) :
                    /\ RowsNext[k].start_time_iso = isoformat(loc[i].start_dt)
                    /\ IF loc[i].op = "book"
                       THEN k = Len(ledger') /\ Len(ledger') = Len(ledger) + 1
                       ELSE RowsNext[k].id = loc[i].target.id ]_vars

\* A Book wrote its row one second after the start it had checked.
C19_Witness ==
  \E i \in Sessions :
     /\ pc[i] = "send" /\ loc[i].op = "book"
     /\ LastCall(calls[i]) = Call("append_appointment", "ok")
     /\ loc[i].start_dt < now
     /\ Rows[Len(Rows)].start_time_iso = isoformat(loc[i].start_dt)
     /\ Rows[Len(Rows)].created_at_iso = isoformat(now)

\* ----------------------------------------------------------------- C20
\* All row ids of the sheet are pairwise distinct.
IdsDistinct ==
  \A j, k \in 1..Len(Rows) : j # k => Rows[j].id # Rows[k].id

\* Session i appends the row of its Book.
AppendsRow(i) ==
  /\ pc[i] = "append"
  /\ pc'[i] = "send"

\* No step removes or moves a row; the append of a Book adds one row, with a
\* fresh id, status active and empty notes, after the rows already there; the
\* update_row of a Reschedule or Cancel and every other step keep the count.
RowsNeverLost ==
  /\ Len(ledger') >= Len(ledger)
  /\ \A k \in 1..Len(ledger) : RowsNext[k].id = Rows[k].id
  /\ \A i \in Sessions :
        AppendsRow(i) =>
           /\ Len(ledger') = Len(ledger) + 1
           /\ SubSeq(ledger', 1, Len(ledger)) = ledger
           /\ \A k \in 1..Len(ledger) :
                 Rows[k].id # RowsNext[Len(ledger')].id
           /\ RowsNext[Len(ledger')].id = loc[i].appointment_id
           /\ RowsNext[Len(ledger')].status = "active"
           /\ RowsNext[Len(ledger')].notes = EMPTY
  /\ (\A i \in Sessions : ~AppendsRow(i)) => Len(ledger') = Len(ledger)
  /\ (\A i \in Sessions : pc[i] \notin {"append", "update_row", "cancel_row"})
        => ledger' = ledger

\* A run that did not end in st.success appended no row.
FailedAddsNoRow ==
  \A i \in Sessions :
     (pc[i] = "done" /\ result[i] # "success") =>
        \A k \in 1..Len(calls[i]) :
           calls[i][k] # Call("append_appointment", "ok")

\* C20: the sheet never loses a row: a successful Book adds exactly one row
\* (fresh id, status active, empty notes), Reschedule and Cancel leave the
\* count and every row's position unchanged, a rejected or failed operation
\* adds no row, and all row ids stay pairwise distinct.
C20_LedgerNeverLosesRow ==
  /\ [] IdsDistinct
  /\ [] FailedAddsNoRow
  /\ [][RowsNeverLost]_vars

\* ----------------------------------------------------------------- C21
\* Session i overwrites a sheet row with the update_row of its Reschedule or
\* Cancel.
OverwritesRow(i) ==
  /\ pc[i] \in {"update_row", "cancel_row"}
  /\ pc'[i] = "send"

\* The position a session in its try block found in its snapshot holds, in
\* the sheet as it is now, the row of the id it asked for.
PositionHoldsTarget ==
  \A i \in Sessions :
     pc[i] \in {"patch", "update_row", "delete", "cancel_row"} =>
        /\ loc[i].idx + 1 \in 1..Len(Rows)
        /\ Rows[loc[i].idx + 1].id = loc[i].target.id

\* C21: under any interleaving of the interactions, sheet row idx + 2 of a
\* Reschedule or Cancel is the row whose id is the requested id: the write
\* changes that row only and leaves its id, also when the snapshot is stale.
C21_PositionAddressesRequestedId ==
  /\ [] PositionHoldsTarget
  /\ [][ \A i \in Sessions :
           OverwritesRow(i) =>
              /\ Len(ledger') = Len(ledger)
              /\ Rows[loc[i].idx + 1].id = loc[i].target.id
              /\ RowsNext[loc[i].idx + 1].id = loc[i].target.id
              /\ \A k \in 1..Len(ledger) :
                    k # loc[i].idx + 1 => ledger'[k] = ledger[k] ]_vars

\* A Reschedule or Cancel wrote its row from a snapshot older than the row
\* another interaction appended meanwhile.
C21_Witness ==
  \E i \in Sessions :
     /\ pc[i] = "send" /\ loc[i].op \in {"update", "cancel"}
     /\ ~fresh[i]
     /\ LastCall(calls[i]) = Call("update_row", "ok")
     /\ Len(Rows) = 2
     /\ Rows[loc[i].idx + 1].id = loc[i].target.id
     /\ Rows[1].id # Rows[2].id

\* ----------------------------------------------------------------- C22
\* The date the rows of the sheet are on and a date without rows, and the
\* ids an interaction can pass as ignore_id (EMPTY for a Book).
SheetDates == { DateOf(StartNow), DateOf(StartNow) + 3 }
SheetIgnoreIds == { Rows[k].id : k \in 1..Len(Rows) } \cup { EMPTY }

\* slot_choices and has_conflict agree on every slot of the date.
PredicatesAgree(existing, selected_date, ignore_id) ==
  LET shown == slot_choices(existing, selected_date, ignore_id)
      slots == generate_slots_for_date(selected_date)
  IN /\ Len(shown) = Len(slots)
     /\ \A k \in 1..Len(slots) :
           /\ shown[k].dt = slots[k]
           /\ shown[k].status = "busy"
                 <=> has_conflict(existing, isoformat(slots[k]), ignore_id)

\* C22: on every reachable sheet, for every date, every slot of its grid and
\* every ignore_id, slot_choices shows the slot busy iff has_conflict is true
\* of its isoformat text on the same snapshot; a slot shown free is never
\* refused by has_conflict.
C22_ConflictPredicatesAgree ==
  \A d \in SheetDates : \A id \in SheetIgnoreIds : PredicatesAgree(Rows, d, id)

\* A sheet with a canceled row and an active row: the slot of the active row
\* is busy for a Book and free for the Reschedule of that row.
C22_Witness ==
  /\ Len(Rows) = 2
  /\ \E j, k \in 1..2 :
        /\ Rows[j].status = "canceled" /\ Rows[k].status = "active"
        /\ \E n \in 1..Len(generate_slots_for_date(DateOf(StartNow))) :
              /\ Rows[k].start_time_iso
                    = isoformat(generate_slots_for_date(DateOf(StartNow))[n])
              /\ slot_choices(Rows, DateOf(StartNow), EMPTY)[n].status = "busy"
              /\ slot_choices(Rows, DateOf(StartNow), Rows[k].id)[n].status = "free"
              /\ has_conflict(Rows, Rows[k].start_time_iso, EMPTY)

\* ----------------------------------------------------------------- C23
\* A snapshot as Book, Reschedule and Cancel leave the sheet: every start is
\* the isoformat text of a slot of its date, every status active or canceled.
WrittenByHandlers(existing) ==
  \A k \in 1..Len(existing) :
     /\ existing[k].status \in {"active", "canceled"}
     /\ parse_iso_datetime(existing[k].start_time_iso) # None
     /\ LET start == parse_iso_datetime(existing[k].start_time_iso)
        IN /\ existing[k].start_time_iso = isoformat(start)
           /\ \E n \in 1..Len(generate_slots_for_date(DateOf(start))) :
                 generate_slots_for_date(DateOf(start))[n] = start

\* Every slot slot_choices returns for the date is busy.
AllBusy(existing, selected_date, ignore_id) ==
  \A k \in 1..Len(slot_choices(existing, selected_date, ignore_id)) :
     slot_choices(existing, selected_date, ignore_id)[k].status = "busy"

\* day_is_full has returned, on a snapshot as the handlers leave it.
FullChecked ==
  /\ args.fn = "day_is_full" /\ ret.done
  /\ WrittenByHandlers(args.existing)

\* C23: on a sheet written by Book, Reschedule and Cancel, day_is_full is
\* true iff every slot slot_choices returns for the date and ignore_id is
\* busy, and date_choice_list gives the reason "agenda completa" to no date of
\* which slot_choices shows a slot free.
C23_FullIffAllBusy ==
  /\ FullChecked =>
        (ret.value <=> AllBusy(args.existing, args.selected_date, args.ignore_id))
  /\ (Planned /\ WrittenByHandlers(args.existing)) =>
        \A k \in 1..Len(ret.value.choices) :
           ret.value.choices[k].reason = "agenda completa" =>
              /\ ret.value.choices[k].blocked
              /\ AllBusy(args.existing, ret.value.choices[k].date, args.ignore_id)

\* day_is_full returned true for a Saturday with each of its 32 slots taken.
C23_Witness ==
  /\ FullChecked
  /\ ret.value
  /\ Len(args.existing) = 32
  /\ args.ignore_id = EMPTY
  /\ AllBusy(args.existing, args.selected_date, EMPTY)
  /\ ~AllBusy(args.existing, args.selected_date, <<1>>)

\* ----------------------------------------------------------------- C24
\* No operation is under way.
Completed == \A i \in Sessions : pc[i] \in {"idle", "done"}

\* The events the active rows of the sheet refer to.
ActiveEvents ==
  { Rows[k].calendar_event_id : k \in { n \in 1..Len(Rows) : IsActive(Rows[n]) } }

\* C24: with one operation at a time and no calendar or sheet call failing,
\* after every completed operation the calendar holds exactly the events of
\* the active rows, each starting at the start of its row and ending 30
\* minutes later, and holds no event of a canceled row.
C24_CalendarMatchesActiveRows ==
  Completed =>
     /\ DOMAIN calendar = ActiveEvents
     /\ \A k \in 1..Len(Rows) :
           IF IsActive(Rows[k])
           THEN /\ Rows[k].calendar_event_id # EMPTY
                /\ calendar[Rows[k].calendar_event_id].start = Rows[k].start_time_iso
                /\ calendar[Rows[k].calendar_event_id].end
                      = isoformat(parse_iso_datetime(Rows[k].start_time_iso) + 30 * 60)
           ELSE /\ Rows[k].status = "canceled"
                /\ Rows[k].calendar_event_id \notin DOMAIN calendar
     /\ \A j, k \in 1..Len(Rows) :
           j # k => Rows[j].calendar_event_id # Rows[k].calendar_event_id

\* After a Book, a Reschedule to 08:15 and the Cancel of another appointment:
\* one event left, that of the active row, at 08:15.
C24_Witness ==
  /\ Completed
  /\ Len(Rows) = 2
  /\ \E j, k \in 1..2 :
        /\ Rows[j].status = "canceled" /\ IsActive(Rows[k])
        /\ Rows[k].start_time_iso = isoformat(combine_datetime(5, 8, 15))
        /\ Rows[k].created_at_iso # EMPTY
        /\ DOMAIN calendar = { Rows[k].calendar_event_id }
        /\ calendar[Rows[k].calendar_event_id].end
              = isoformat(combine_datetime(5, 8, 45))

\* ----------------------------------------------------------------- C25
\* The canceled rows whose start no active row holds.
FreedRows ==
  { k \in 1..Len(Rows) :
      /\ Rows[k].status = "canceled"
      /\ \A n \in 1..Len(Rows) :
            IsActive(Rows[n]) => Rows[n].start_time_iso # Rows[k].start_time_iso }

\* On the sheet as fetched now, the start of canceled row k is shown free
\* and no Book and no Reschedule of another appointment that picks it is
\* refused for a conflict or for want of a free slot.
NotBlockedBy(k) ==
  LET start == parse_iso_datetime(Rows[k].start_time_iso)
      slots == generate_slots_for_date(DateOf(start))
  IN /\ \E n \in 1..Len(slots) : slots[n] = start
     /\ \A id \in SheetIgnoreIds :
           /\ ~has_conflict(Rows, Rows[k].start_time_iso, id)
           /\ \A n \in 1..Len(slots) :
                 slots[n] = start =>
                    slot_choices(Rows, DateOf(start), id)[n].status = "free"
     /\ \A d \in DatePicks, n \in SlotPicks :
           (/\ DateOf(now) + d = DateOf(start)
            /\ n <= Len(slots) /\ slots[n] = start) =>
              /\ booking_precheck(Rows, now, GoodForm, d, n) \in {"ok", "past"}
              /\ \A j \in 1..Len(Rows) :
                    IsActive(Rows[j]) =>
                       update_precheck(Rows, now, Rows[j].id, d, n) \in {"ok", "past"}

\* C25: once a Cancel has written its row, the row is canceled with its start
\* kept, and on every sheet fetched from then on that start is shown free by
\* slot_choices and a Book or a Reschedule of another appointment picking it
\* is not refused as a conflict, as long as no active row holds that start.
C25_CanceledRowFreesSlot ==
  /\ [] (\A k \in FreedRows : NotBlockedBy(k))
  /\ [][ \A i \in Sessions :
           (pc[i] = "cancel_row" /\ pc'[i] = "send") =>
              /\ RowsNext[loc[i].idx + 1].status = "canceled"
              /\ RowsNext[loc[i].idx + 1].start_time_iso
                    = Rows[loc[i].idx + 1].start_time_iso
              /\ IsActive(Rows[loc[i].idx + 1]) ]_vars

\* A Book has passed its checks for the start of a canceled row.
C25_Witness ==
  \E i \in Sessions : \E k \in FreedRows :
     /\ pc[i] = "create" /\ loc[i].op = "book"
     /\ isoformat(loc[i].start_dt) = Rows[k].start_time_iso
     /\ ~has_conflict(Rows, isoformat(loc[i].start_dt), EMPTY)

====
